---- MODULE Spec2Model ----
(***************************************************************************)
(* FlashDecky study card generator (src/app.py): the text parser           *)
(* (split_into_items, smart_split_term_def, parse_text_to_df), the word    *)
(* wrapper (wrap_text), the duplex page layout (create_cards_pdf) and the  *)
(* Streamlit rerun loop (main, step_upload, step_review, step_download).   *)
(*                                                                         *)
(* A string is a sequence of one-character strings.  The characters that   *)
(* are not ASCII are named: "ndash" (U+2013), "mdash" (U+2014), "bullet"  *)
(* (U+2022).                                                               *)
(***************************************************************************)
EXTENDS Integers, Sequences, FiniteSets, TLC

VARIABLES
    \* parse_text_to_df
    raw, items, item_k, terms, defs, parse_pc,
    \* wrap_text
    text, max_width, metrics, words, word_k, cur, lines, wrap_pc,
    \* create_cards_pdf
    n_records, duplex_mode, back_offset_x_mm, back_offset_y_mm, footer_text,
    show_corner, slice_i, pages, pdf_pc,
    \* the Streamlit session: session_state, the widgets and what a run rendered
    stage, raw_text, cards_df, sheet_up, include_footer, footer_subject,
    footer_lesson, footer_template, rendered, review_df, generated

parse_vars == <<raw, items, item_k, terms, defs, parse_pc>>
wrap_vars == <<text, max_width, metrics, words, word_k, cur, lines, wrap_pc>>
pdf_vars == <<n_records, duplex_mode, back_offset_x_mm, back_offset_y_mm,
              footer_text, show_corner, slice_i, pages, pdf_pc>>
ui_vars == <<stage, raw_text, cards_df, sheet_up, include_footer, footer_subject,
             footer_lesson, footer_template, rendered, review_df, generated>>
vars == <<parse_vars, wrap_vars, pdf_vars, ui_vars>>

(***************************************************************************)
(* Characters and the classes the regular expressions use.                 *)
(***************************************************************************)
Whitespace == {" ", "\n", "\t", "\r"}
Digits == {"0", "1", "2", "3", "4", "5", "6", "7", "8", "9"}
Letters ==
    {"a", "b", "c", "d", "e", "f", "g", "h", "i", "j", "k", "l", "m",
     "n", "o", "p", "q", "r", "s", "t", "u", "v", "w", "x", "y", "z",
     "A", "B", "C", "D", "E", "F", "G", "H", "I", "J", "K", "L", "M",
     "N", "O", "P", "Q", "R", "S", "T", "U", "V", "W", "X", "Y", "Z"}
\* [\.\)\-ndash mdash] of the numbering the extractor strips
NumberingPunct == {".", ")", "-", "ndash", "mdash"}
\* [\.\)] of a numbered item start
ItemPunct == {".", ")"}
\* [\-ndash mdash:] of a headword line
HeadwordSeps == {"-", "ndash", "mdash", ":"}
\* [A-Za-z'\-] of a glossary headword
WordChars == Letters \cup {"'", "-"}
\* {0,50} of the headword line
HeadwordWindow == 50

Min(a, b) == IF a <= b THEN a ELSE b

(***************************************************************************)
(* str primitives.                                                         *)
(***************************************************************************)
\* the first index j >= i of s whose character is not in class (Len(s)+1 if none)
RECURSIVE Skip(_, _, _)
Skip(s, i, class) ==
    IF i <= Len(s) /\ s[i] \in class THEN Skip(s, i + 1, class) ELSE i

\* the first index j >= i of s whose character is in class (Len(s)+1 if none)
RECURSIVE SkipTo(_, _, _)
SkipTo(s, i, class) ==
    IF i <= Len(s) /\ s[i] \notin class THEN SkipTo(s, i + 1, class) ELSE i

\* the last index j <= i of s whose character is not whitespace (0 if none)
RECURSIVE SkipBack(_, _)
SkipBack(s, i) ==
    IF i >= 1 /\ s[i] \in Whitespace THEN SkipBack(s, i - 1) ELSE i

\* str.strip()
strip(s) == SubSeq(s, Skip(s, 1, Whitespace), SkipBack(s, Len(s)))

\* whether d occurs in s at index i
OccursAt(s, d, i) ==
    /\ i >= 1
    /\ i + Len(d) - 1 <= Len(s)
    /\ SubSeq(s, i, i + Len(d) - 1) = d

\* str.find from index i, 1-based (0 if d does not occur)
RECURSIVE FindFrom(_, _, _)
FindFrom(s, d, i) ==
    IF i + Len(d) - 1 > Len(s) THEN 0
    ELSE IF OccursAt(s, d, i) THEN i
    ELSE FindFrom(s, d, i + 1)

Find(s, d) == FindFrom(s, d, 1)

\* str.replace(old, new): every occurrence left to right, none overlapping
RECURSIVE replace(_, _, _)
replace(s, old, new) ==
    LET at == Find(s, old)
    IN  IF at = 0 THEN s
        ELSE SubSeq(s, 1, at - 1) \o new
             \o replace(SubSeq(s, at + Len(old), Len(s)), old, new)

\* re.sub(r'\n{2,}', '\n', t)
RECURSIVE collapse_newlines(_)
collapse_newlines(t) ==
    IF t = <<>> THEN <<>>
    ELSE IF t[1] = "\n"
         THEN <<"\n">> \o collapse_newlines(SubSeq(t, Skip(t, 1, {"\n"}), Len(t)))
         ELSE <<t[1]>> \o collapse_newlines(Tail(t))

\* the pieces of s between the indices of cuts, each cut one character wide
RECURSIVE SplitAt(_, _, _)
SplitAt(s, cuts, from) ==
    LET later == {c \in cuts : c >= from}
    IN  IF later = {} THEN <<SubSeq(s, from, Len(s))>>
        ELSE LET c == CHOOSE x \in later : \A y \in later : x <= y
             IN  <<SubSeq(s, from, c - 1)>> \o SplitAt(s, cuts, c + 1)

\* [x.strip() for x in xs if x.strip()]
RECURSIVE StripNonBlank(_)
StripNonBlank(xs) ==
    IF xs = <<>> THEN <<>>
    ELSE IF strip(xs[1]) = <<>> THEN StripNonBlank(Tail(xs))
         ELSE <<strip(xs[1])>> \o StripNonBlank(Tail(xs))

(***************************************************************************)
(* smart_split_term_def                                                    *)
(***************************************************************************)
\* the delimiters of step 1, in the order they are tried
ExplicitDelims ==
    << <<" ", "-", " ">>, <<" ", "mdash", " ">>, <<" ", "ndash", " ">>,
       <<":">>, <<" ", ":", " ">> >>

\* line.strip() with the leading numbering removed:
\* re.sub(r'^\s*\d+\s*[\.\)\-ndash mdash]\s*', '', s)
strip_numbering(line) ==
    LET s == strip(line)
        a == Skip(s, 1, Whitespace)
        b == Skip(s, a, Digits)
        c == Skip(s, b, Whitespace)
    IN  IF b > a /\ c <= Len(s) /\ s[c] \in NumberingPunct
        THEN SubSeq(s, Skip(s, c + 1, Whitespace), Len(s))
        ELSE s

\* the index in ExplicitDelims of the first delimiter that is in s (0 if none)
first_delim(s) ==
    LET hits == {k \in 1..Len(ExplicitDelims) : Find(s, ExplicitDelims[k]) > 0}
    IN  IF hits = {} THEN 0 ELSE CHOOSE k \in hits : \A j \in hits : k <= j

\* s.split(d, 1), both parts stripped
split_on_delim(s, d) ==
    LET at == Find(s, d)
    IN  <<strip(SubSeq(s, 1, at - 1)), strip(SubSeq(s, at + Len(d), Len(s)))>>

\* re.match(r'^\s*([A-Za-z][A-Za-z\'\-]*)\s*\(([^)]+)\)\s*(.+)$', s):
\* <<>> when it does not match, else <<term, definition>>
glossary_match(s) ==
    LET a == Skip(s, 1, Whitespace)
        w == Skip(s, a + 1, WordChars)
        p == Skip(s, w, Whitespace)
        q == FindFrom(s, <<")">>, p + 1)
        r == Skip(s, q + 1, Whitespace)
        rest == SubSeq(s, r, Len(s))
    IN  IF /\ a <= Len(s) /\ s[a] \in Letters
           /\ p <= Len(s) /\ s[p] = "("
           /\ q > p + 1
           /\ rest # <<>>
           /\ Find(rest, <<"\n">>) = 0
        THEN <<SubSeq(s, a, w - 1),
               <<"(">> \o strip(SubSeq(s, p + 1, q - 1)) \o <<")", " ">> \o strip(rest)>>
        ELSE <<>>

\* s.split(None, 1): first word and the rest; (s, "") when there is one word or none
first_word_split(s) ==
    LET a == Skip(s, 1, Whitespace)
        b == SkipTo(s, a, Whitespace)
        c == Skip(s, b, Whitespace)
    IN  IF a <= Len(s) /\ c <= Len(s)
        THEN <<strip(SubSeq(s, a, b - 1)), strip(SubSeq(s, c, Len(s)))>>
        ELSE <<s, <<>>>>

smart_split_term_def(line) ==
    LET s == strip_numbering(line)
        k == first_delim(s)
        m == glossary_match(s)
    IN  IF k > 0 THEN split_on_delim(s, ExplicitDelims[k])
        ELSE IF m # <<>> THEN m
        ELSE first_word_split(s)

(***************************************************************************)
(* split_into_items                                                        *)
(***************************************************************************)
\* the lookahead (?=\s*\d+[\.\)]\s+) at index i of t
numbered_item_at(t, i) ==
    LET a == Skip(t, i, Whitespace)
        b == Skip(t, a, Digits)
    IN  /\ b > a
        /\ b + 1 <= Len(t)
        /\ t[b] \in ItemPunct
        /\ t[b + 1] \in Whitespace

\* the lookahead (?=[A-Za-z][^\n]{0,50}?(?:\s[\-ndash mdash:]\s|\s\([^)]+\))) at index i
headword_at(t, i) ==
    /\ i <= Len(t)
    /\ t[i] \in Letters
    /\ \E k \in 0..Min(HeadwordWindow, Len(t)) :
          LET p == i + 1 + k
          IN  /\ \A j \in (i + 1)..(p - 1) : j <= Len(t) /\ t[j] # "\n"
              /\ p + 1 <= Len(t)
              /\ t[p] \in Whitespace
              /\ \/ /\ p + 2 <= Len(t)
                    /\ t[p + 1] \in HeadwordSeps
                    /\ t[p + 2] \in Whitespace
                 \/ /\ t[p + 1] = "("
                    /\ FindFrom(t, <<")">>, p + 2) > p + 2

\* the indices of the newlines re.split cuts at
numbered_cuts(t) == {i \in 1..Len(t) : t[i] = "\n" /\ numbered_item_at(t, i + 1)}
headword_cuts(t) == {i \in 1..Len(t) : t[i] = "\n" /\ headword_at(t, i + 1)}

split_into_items(r) ==
    LET t == strip(collapse_newlines(replace(r, <<"\r", "\n">>, <<"\n">>)))
    IN  IF numbered_cuts(t) # {}
        THEN StripNonBlank(SplitAt(t, numbered_cuts(t), 1))
        ELSE StripNonBlank(SplitAt(t, headword_cuts(t), 1))

(***************************************************************************)
(* parse_text_to_df: the deck is the sequence of <<term, definition>>.     *)
(***************************************************************************)
RECURSIVE pairs_of(_)
pairs_of(its) ==
    IF its = <<>> THEN <<>>
    ELSE LET td == smart_split_term_def(its[1])
         IN  (IF td[1] # <<>> \/ td[2] # <<>> THEN <<td>> ELSE <<>>)
             \o pairs_of(Tail(its))

parse_text_to_df(r) == pairs_of(split_into_items(r))

(***************************************************************************)
(* The inputs of the parser: up to MaxLines lines, each an optional list   *)
(* marker followed by a body.                                              *)
(***************************************************************************)
MaxLines == 3

LineMarkers ==
    { <<>>, <<"1", ".", " ">>, <<"2", ")", " ">>, <<"-", " ">> }

LineBodies ==
    { <<"a", " ", "-", " ", "b">>,
      <<"c", " ", "d">>,
      <<"9", ":", "0", "0">>,
      <<"x", "-", "y", " ", "z">>,
      <<>> }

InputLines == {m \o b : m \in LineMarkers, b \in LineBodies}

RECURSIVE JoinLines(_)
JoinLines(ls) ==
    IF ls = <<>> THEN <<>>
    ELSE IF Len(ls) = 1 THEN ls[1]
    ELSE ls[1] \o <<"\n">> \o JoinLines(Tail(ls))

RawInputs ==
    {JoinLines(ls) : ls \in UNION {[1..n -> InputLines] : n \in 1..MaxLines}}

(***************************************************************************)
(* parse_text_to_df, one step per statement of its loop.                   *)
(***************************************************************************)
\* items = split_into_items(raw)
SplitItems ==
    /\ parse_pc = "split"
    /\ items' = split_into_items(raw)
    /\ item_k' = 1
    /\ parse_pc' = "loop"
    /\ UNCHANGED <<raw, terms, defs>>
    /\ UNCHANGED <<wrap_vars, pdf_vars, ui_vars>>

\* one turn of "for it in items"
ExtractItem ==
    /\ parse_pc = "loop"
    /\ item_k <= Len(items)
    /\ LET td == smart_split_term_def(items[item_k])
       IN  IF td[1] # <<>> \/ td[2] # <<>>
           THEN /\ terms' = Append(terms, td[1])
                /\ defs' = Append(defs, td[2])
           ELSE UNCHANGED <<terms, defs>>
    /\ item_k' = item_k + 1
    /\ UNCHANGED <<raw, items, parse_pc>>
    /\ UNCHANGED <<wrap_vars, pdf_vars, ui_vars>>

\* return pd.DataFrame(...)
ReturnFrame ==
    /\ parse_pc = "loop"
    /\ item_k > Len(items)
    /\ parse_pc' = "done"
    /\ UNCHANGED <<raw, items, item_k, terms, defs>>
    /\ UNCHANGED <<wrap_vars, pdf_vars, ui_vars>>

ParseNext ==
    \/ SplitItems
    \/ ExtractItem
    \/ ReturnFrame

(***************************************************************************)
(* wrap_text                                                               *)
(***************************************************************************)
MaxTextLen == 5
MaxWidth == 4

WrapAlphabet == {"i", "W", " "}

\* the texts of at most MaxTextLen characters
WrapTexts == UNION {[1..n -> WrapAlphabet] : n \in 0..MaxTextLen}

\* the glyph widths stringWidth adds up: the font's metrics
MetricsSet ==
    {[c \in WrapAlphabet |->
        IF c = "i" THEN wi ELSE IF c = "W" THEN ww ELSE ws] :
     wi \in {1, 2}, ww \in {2, 3}, ws \in {0, 1}}

\* stringWidth(s, font, size)
RECURSIVE stringWidth(_, _)
stringWidth(s, m) ==
    IF s = <<>> THEN 0 ELSE m[s[1]] + stringWidth(Tail(s), m)

\* str.split(): the maximal runs of characters that are not whitespace
RECURSIVE str_split(_)
str_split(s) ==
    LET a == Skip(s, 1, Whitespace)
        b == SkipTo(s, a, Whitespace)
    IN  IF a > Len(s) THEN <<>>
        ELSE <<SubSeq(s, a, b - 1)>> \o str_split(SubSeq(s, b, Len(s)))

\* a turn that starts the new line without flushing the current one
wrap_step_no_flush(c, ls, w, maxw, m) ==
    LET test == strip(c \o <<" ">> \o w)
    IN  IF stringWidth(test, m) <= maxw THEN <<test, ls>> ELSE <<w, ls>>

\* one turn of "for w in words": <<cur, lines>> after it
wrap_step(c, ls, w, maxw, m) ==
    LET test == strip(c \o <<" ">> \o w)
    IN  IF stringWidth(test, m) <= maxw THEN <<test, ls>>
        ELSE <<w, IF c # <<>> THEN Append(ls, c) ELSE ls>>

\* words = text.split(); lines = []; cur = ""
SplitWords ==
    /\ wrap_pc = "split"
    /\ words' = str_split(text)
    /\ word_k' = 1
    /\ wrap_pc' = "loop"
    /\ UNCHANGED <<text, max_width, metrics, cur, lines>>
    /\ UNCHANGED <<parse_vars, pdf_vars, ui_vars>>

WrapWord ==
    /\ wrap_pc = "loop"
    /\ word_k <= Len(words)
    /\ LET after == wrap_step(cur, lines, words[word_k], max_width, metrics)
       IN  /\ cur' = after[1]
           /\ lines' = after[2]
    /\ word_k' = word_k + 1
    /\ UNCHANGED <<text, max_width, metrics, words, wrap_pc>>
    /\ UNCHANGED <<parse_vars, pdf_vars, ui_vars>>

\* if cur: lines.append(cur); return lines
ReturnLines ==
    /\ wrap_pc = "loop"
    /\ word_k > Len(words)
    /\ lines' = IF cur # <<>> THEN Append(lines, cur) ELSE lines
    /\ wrap_pc' = "done"
    /\ UNCHANGED <<text, max_width, metrics, words, word_k, cur>>
    /\ UNCHANGED <<parse_vars, pdf_vars, ui_vars>>

WrapNext ==
    \/ SplitWords
    \/ WrapWord
    \/ ReturnLines

(***************************************************************************)
(* create_cards_pdf.  A record of the deck is its position 0..n-1; lengths *)
(* are in 1/127 point, which makes mm_to_points exact: 1 mm = 72/25.4 pt   *)
(* = 360/127 pt.                                                           *)
(***************************************************************************)
MaxCards == 17

PAGE_W == 612
PAGE_H == 792
MARGIN == 18
COLS == 2
ROWS == 4

Mirrored == "Long-edge (mirrored back)"
NotMirrored == "Long-edge (not mirrored)"
DuplexModes == {Mirrored, NotMirrored}

Pt(p) == p * 127
mm_to_points(mm) == mm * 360

card_w == (PAGE_W - 2 * MARGIN) \div COLS
card_h == (PAGE_H - 2 * MARGIN) \div ROWS

\* a loop over the full sheets only, as range(0, len(records) // 8 * 8, 8) would be
more_slices_full_only(i, n) == i + COLS * ROWS <= n

\* range(0, len(records), COLS * ROWS) has a slice at i
more_slices(i, n) == i < n

\* records[i:i + COLS * ROWS], as the positions of its records
slice_rows(i, n) ==
    [idx \in 1..(Min(i + COLS * ROWS, n) - i) |-> i + idx - 1]

\* a mirror that forgets the row: every back card lands in row 0
map_idx_row_lost(mode, j) ==
    IF mode = Mirrored THEN (COLS - 1) - (j % COLS) ELSE j

\* no mirror in either mode
map_idx_unmirrored(mode, j) == j

\* the back-grid index of front-grid index j
map_idx(mode, j) ==
    IF mode = Mirrored
    THEN LET r == j \div COLS
             col == j % COLS
             col_b == (COLS - 1) - col
         IN  r * COLS + col_b
    ELSE j

\* what is drawn for the record at place idx (0-based) of the slice, front face
front_card(rec, idx, footer, corner) ==
    LET r == idx \div COLS
        col == idx % COLS
    IN  [rec |-> rec, col |-> col, row |-> r,
         x |-> Pt(MARGIN + col * card_w),
         y |-> Pt(PAGE_H - MARGIN - (r + 1) * card_h),
         footer |-> (footer # <<>>), corner |-> corner]

\* the same, back face
back_card(rec, idx, mode, ox, oy, footer, corner) ==
    LET mapped == map_idx(mode, idx)
        r == mapped \div COLS
        col == mapped % COLS
    IN  [rec |-> rec, col |-> col, row |-> r,
         x |-> Pt(MARGIN + col * card_w) + mm_to_points(ox),
         y |-> Pt(PAGE_H - MARGIN - (r + 1) * card_h) + mm_to_points(oy),
         footer |-> (footer # <<>>), corner |-> corner]

\* the page showPage() emits after the front loop over the slice at i
front_page(i, n, footer, corner) ==
    LET rows == slice_rows(i, n)
    IN  [face |-> "front", sheet |-> i \div (COLS * ROWS),
         cards |-> [idx \in 1..Len(rows) |->
                       front_card(rows[idx], idx - 1, footer, corner)]]

\* the page showPage() emits after the back loop over the same slice
back_page(i, n, mode, ox, oy, footer, corner) ==
    LET rows == slice_rows(i, n)
    IN  [face |-> "back", sheet |-> i \div (COLS * ROWS),
         cards |-> [idx \in 1..Len(rows) |->
                       back_card(rows[idx], idx - 1, mode, ox, oy, footer, corner)]]

pdf_args == <<n_records, duplex_mode, back_offset_x_mm, back_offset_y_mm,
              footer_text, show_corner>>

\* the front loop of one slice, then c.showPage()
DrawFront ==
    /\ pdf_pc = "front"
    /\ more_slices(slice_i, n_records)
    /\ pages' = Append(pages, front_page(slice_i, n_records, footer_text, show_corner))
    /\ pdf_pc' = "back"
    /\ UNCHANGED <<pdf_args, slice_i>>
    /\ UNCHANGED <<parse_vars, wrap_vars, ui_vars>>

\* the back loop of the same slice, then c.showPage(); the for loop steps on
DrawBack ==
    /\ pdf_pc = "back"
    /\ pages' = Append(pages, back_page(slice_i, n_records, duplex_mode,
                                        back_offset_x_mm, back_offset_y_mm,
                                        footer_text, show_corner))
    /\ slice_i' = slice_i + COLS * ROWS
    /\ pdf_pc' = "front"
    /\ UNCHANGED pdf_args
    /\ UNCHANGED <<parse_vars, wrap_vars, ui_vars>>

\* the for loop is exhausted: c.save(); return buf.getvalue()
Save ==
    /\ pdf_pc = "front"
    /\ ~more_slices(slice_i, n_records)
    /\ pdf_pc' = "done"
    /\ UNCHANGED <<pdf_args, slice_i, pages>>
    /\ UNCHANGED <<parse_vars, wrap_vars, ui_vars>>

PdfNext ==
    \/ DrawFront
    \/ DrawBack
    \/ Save

\* the pages of one whole call
RECURSIVE pdf_pages_from(_, _, _, _, _, _, _)
pdf_pages_from(i, n, mode, ox, oy, footer, corner) ==
    IF more_slices(i, n)
    THEN <<front_page(i, n, footer, corner),
           back_page(i, n, mode, ox, oy, footer, corner)>>
         \o pdf_pages_from(i + COLS * ROWS, n, mode, ox, oy, footer, corner)
    ELSE <<>>

create_cards_pdf(n, mode, ox, oy, footer, corner) ==
    pdf_pages_from(0, n, mode, ox, oy, footer, corner)

(***************************************************************************)
(* The Streamlit session.  An optional value (None or a frame) is a record *)
(* [present, rows]; a deck is the sequence of <<term, definition>> rows.   *)
(***************************************************************************)
None == [present |-> FALSE, rows |-> <<>>]
Some(rows) == [present |-> TRUE, rows |-> rows]

\* str.join(" ", parts)
RECURSIVE join_space(_)
join_space(parts) ==
    IF parts = <<>> THEN <<>>
    ELSE IF Len(parts) = 1 THEN parts[1]
    ELSE parts[1] \o <<" ">> \o join_space(Tail(parts))

\* re.split(r'\t+|\s{2,}|\|', line): the pieces, scanning from index i,
\* the current piece starting at index from
RECURSIVE table_split(_, _, _)
table_split(s, i, from) ==
    IF i > Len(s) THEN <<SubSeq(s, from, Len(s))>>
    ELSE IF s[i] = "\t"
    THEN LET j == Skip(s, i, {"\t"})
         IN  <<SubSeq(s, from, i - 1)>> \o table_split(s, j, j)
    ELSE IF s[i] \in Whitespace /\ i + 1 <= Len(s) /\ s[i + 1] \in Whitespace
    THEN LET j == Skip(s, i, Whitespace)
         IN  <<SubSeq(s, from, i - 1)>> \o table_split(s, j, j)
    ELSE IF s[i] = "|"
    THEN <<SubSeq(s, from, i - 1)>> \o table_split(s, i + 1, i + 1)
    ELSE table_split(s, i + 1, from)

\* the rows the "Parse table" button builds from the lines of the pasted text
RECURSIVE table_rows(_)
table_rows(ls) ==
    IF ls = <<>> THEN <<>>
    ELSE LET parts == StripNonBlank(table_split(ls[1], 1, 1))
         IN  (IF Len(parts) >= 2
              THEN << <<parts[1], join_space(Tail(parts))>> >>
              ELSE <<>>)
             \o table_rows(Tail(ls))

\* pasted.splitlines(), then the rows
parse_table(pasted) ==
    table_rows(SplitAt(pasted, {i \in 1..Len(pasted) : pasted[i] \in {"\n", "\r"}}, 1))

\* the frame of the first two columns of an uploaded sheet
RECURSIVE two_columns(_)
two_columns(rows) ==
    IF rows = <<>> THEN <<>>
    ELSE << <<rows[1][1], rows[1][2]>> >> \o two_columns(Tail(rows))

\* step_upload, spreadsheet tab: the frame it stores for the uploaded file f
\* (None when it stores nothing)
sheet_frame(f) ==
    IF f.kind = "table" /\ f.ncols >= 2 THEN Some(two_columns(f.rows)) ELSE None

\* step_upload: session_state["cards_df"] after it
upload_cards(cards, f, btn, pasted) ==
    IF sheet_frame(f).present THEN sheet_frame(f)
    ELSE IF btn = "parse_table" /\ parse_table(pasted) # <<>>
    THEN Some(parse_table(pasted))
    ELSE cards

\* step_upload: session_state["stage"] after it
upload_stage(f, btn, pasted) ==
    IF \/ btn = "go_from_paste"
       \/ btn = "go_from_sheet" /\ sheet_frame(f).present
       \/ btn = "parse_table" /\ parse_table(pasted) # <<>>
    THEN "review"
    ELSE "upload"

\* step_review: the frame it shows and stores
step_review(cards, rt) ==
    IF cards.present THEN cards.rows
    ELSE IF strip(rt) # <<>> THEN parse_text_to_df(strip(rt))
    ELSE <<>>

\* the footer step_download composes
compose_footer(enable, template, subject, lesson) ==
    IF enable
    THEN replace(replace(template, <<"{", "s", "u", "b", "j", "e", "c", "t", "}">>, subject),
                 <<"{", "l", "e", "s", "s", "o", "n", "}">>, lesson)
    ELSE <<>>

NotGenerated ==
    [kind |-> "none", deck |-> <<>>, footer |-> <<>>, pages |-> <<>>]

\* step_download with "Generate PDF" pressed: what the run produces
step_download(cards, rt, mode, ox, oy, corner, footer) ==
    LET df == IF cards.present THEN cards.rows ELSE parse_text_to_df(strip(rt))
    IN  IF ~cards.present /\ strip(rt) = <<>>
        THEN [kind |-> "warning", deck |-> <<>>, footer |-> footer, pages |-> <<>>]
        ELSE [kind |-> "pdf", deck |-> df, footer |-> footer,
              pages |-> create_cards_pdf(Len(df), mode, ox, oy, footer, corner)]

\* main, its last part: step_download when cards or text are there, and what the
\* run leaves in the session (cards: cards_df after step_review, shown: whether
\* step_review ran, upload: whether step_upload ran, st: the stage it left)
main_download(cards, shown, upload, st, rt, f, btn, mode, ox, oy, corner) ==
    /\ stage' = st
    /\ raw_text' = rt
    /\ sheet_up' = f
    /\ cards_df' = cards
    /\ review_df' = IF shown THEN cards ELSE None
    /\ rendered' = (IF upload THEN {"upload"} ELSE {})
                   \cup (IF shown THEN {"review"} ELSE {})
                   \cup (IF cards.present \/ rt # <<>> THEN {"download"} ELSE {})
    /\ generated' =
          IF (cards.present \/ rt # <<>>) /\ btn = "generate"
          THEN step_download(cards, rt, mode, ox, oy, corner,
                             compose_footer(include_footer, footer_template,
                                            footer_subject, footer_lesson))
          ELSE NotGenerated

\* main, its middle part: step_review when the stage read at the top is "review"
\* or cards or text are there (cards: cards_df after step_upload)
main_review(cards, upload, st, rt, f, btn, mode, ox, oy, corner) ==
    main_download(IF ~upload \/ cards.present \/ rt # <<>>
                  THEN Some(step_review(cards, rt)) ELSE cards,
                  ~upload \/ cards.present \/ rt # <<>>,
                  upload, st, rt, f, btn, mode, ox, oy, corner)

\* main: one run of the script, after the user set the text area to rt and the
\* sheet uploader to f, with button btn pressed ("none": a widget changed)
main(rt, f, btn, pasted, mode, ox, oy, corner) ==
    main_review(IF stage = "upload" THEN upload_cards(cards_df, f, btn, pasted)
                ELSE cards_df,
                stage = "upload",
                IF stage = "upload" THEN upload_stage(f, btn, pasted) ELSE stage,
                rt, f, btn, mode, ox, oy, corner)

(***************************************************************************)
(* The user's inputs, and one action per interaction: Streamlit runs main  *)
(* once after each.                                                        *)
(***************************************************************************)
UiTexts ==
    { <<>>,
      <<" ">>,
      <<"a", " ", "-", " ", "b">>,
      <<"a", " ", "-", " ", "b", "\n", "c", " ", "d">> }

NoSheet == [kind |-> "none", ncols |-> 0, rows |-> <<>>]

Sheets ==
    { [kind |-> "table", ncols |-> 2, rows |-> <<>>],
      [kind |-> "table", ncols |-> 2, rows |-> << <<<<"x">>, <<"y">>>> >>],
      [kind |-> "table", ncols |-> 1, rows |-> << <<<<"x">>>> >>],
      [kind |-> "unreadable", ncols |-> 0, rows |-> <<>>] }

PastedTables ==
    { <<>>,
      <<"x">>,
      <<"x", "|", "y">>,
      <<"x", " ", " ", "y", " ", "z", "\n", "w">> }

DefaultTemplate ==
    <<"{", "s", "u", "b", "j", "e", "c", "t", "}", " ", "bullet", " ",
      "{", "l", "e", "s", "s", "o", "n", "}">>

FooterTemplates == {DefaultTemplate, <<"{", "s", "u", "b", "j", "e", "c", "t", "}">>}
FooterSubjects == {<<>>, <<"M">>}
FooterLessons == {<<>>, <<"L">>}

footer_vars == <<include_footer, footer_subject, footer_lesson, footer_template>>

\* the text area changes (typed, or filled by the extraction tab)
TypeText ==
    /\ "upload" \in rendered
    /\ \E t \in UiTexts :
          /\ t # raw_text
          /\ main(t, sheet_up, "none", <<>>, Mirrored, 0, 0, FALSE)
    /\ UNCHANGED footer_vars
    /\ UNCHANGED <<parse_vars, wrap_vars, pdf_vars>>

\* "Next: Review and edit" of the paste tab
NextFromPaste ==
    /\ "upload" \in rendered
    /\ main(raw_text, sheet_up, "go_from_paste", <<>>, Mirrored, 0, 0, FALSE)
    /\ UNCHANGED footer_vars
    /\ UNCHANGED <<parse_vars, wrap_vars, pdf_vars>>

\* a file is put in the spreadsheet uploader
UploadSheet ==
    /\ "upload" \in rendered
    /\ \E f \in Sheets :
          /\ f # sheet_up
          /\ main(raw_text, f, "none", <<>>, Mirrored, 0, 0, FALSE)
    /\ UNCHANGED footer_vars
    /\ UNCHANGED <<parse_vars, wrap_vars, pdf_vars>>

\* the file is removed, or the radio is switched to "Paste table"
RemoveSheet ==
    /\ "upload" \in rendered
    /\ sheet_up # NoSheet
    /\ main(raw_text, NoSheet, "none", <<>>, Mirrored, 0, 0, FALSE)
    /\ UNCHANGED footer_vars
    /\ UNCHANGED <<parse_vars, wrap_vars, pdf_vars>>

\* "Next: Review and edit" of the spreadsheet tab
NextFromSheet ==
    /\ "upload" \in rendered
    /\ sheet_frame(sheet_up).present
    /\ main(raw_text, sheet_up, "go_from_sheet", <<>>, Mirrored, 0, 0, FALSE)
    /\ UNCHANGED footer_vars
    /\ UNCHANGED <<parse_vars, wrap_vars, pdf_vars>>

\* "Parse table" with the pasted text
ParseTable ==
    /\ "upload" \in rendered
    /\ sheet_up = NoSheet
    /\ \E pasted \in PastedTables :
          main(raw_text, sheet_up, "parse_table", pasted, Mirrored, 0, 0, FALSE)
    /\ UNCHANGED footer_vars
    /\ UNCHANGED <<parse_vars, wrap_vars, pdf_vars>>

\* a footer widget of the download step changes
SetFooter ==
    /\ "download" \in rendered
    /\ include_footer' \in BOOLEAN
    /\ footer_subject' \in FooterSubjects
    /\ footer_lesson' \in FooterLessons
    /\ footer_template' \in FooterTemplates
    /\ footer_vars' # footer_vars
    /\ main(raw_text, sheet_up, "none", <<>>, Mirrored, 0, 0, FALSE)
    /\ UNCHANGED <<parse_vars, wrap_vars, pdf_vars>>

\* "Generate PDF"
GeneratePdf ==
    /\ "download" \in rendered
    /\ \E mode \in DuplexModes :
          main(raw_text, sheet_up, "generate", <<>>, mode, 0, 0, FALSE)
    /\ UNCHANGED footer_vars
    /\ UNCHANGED <<parse_vars, wrap_vars, pdf_vars>>

UiNext ==
    \/ TypeText
    \/ NextFromPaste
    \/ UploadSheet
    \/ RemoveSheet
    \/ NextFromSheet
    \/ ParseTable
    \/ SetFooter
    \/ GeneratePdf

(***************************************************************************)
(* The specifications: one per function, and the session.                  *)
(***************************************************************************)
ParseSpecInit ==
    /\ raw \in RawInputs
    /\ items = <<>>
    /\ item_k = 0
    /\ terms = <<>>
    /\ defs = <<>>
    /\ parse_pc = "split"
    /\ text = <<>>
    /\ max_width = 0
    /\ metrics = <<>>
    /\ words = <<>>
    /\ word_k = 0
    /\ cur = <<>>
    /\ lines = <<>>
    /\ wrap_pc = "idle"
    /\ n_records = 0
    /\ duplex_mode = Mirrored
    /\ back_offset_x_mm = 0
    /\ back_offset_y_mm = 0
    /\ footer_text = <<>>
    /\ show_corner = FALSE
    /\ slice_i = 0
    /\ pages = <<>>
    /\ pdf_pc = "idle"
    /\ stage = "upload"
    /\ raw_text = <<>>
    /\ cards_df = None
    /\ sheet_up = NoSheet
    /\ include_footer = TRUE
    /\ footer_subject = <<>>
    /\ footer_lesson = <<>>
    /\ footer_template = DefaultTemplate
    /\ rendered = {"upload"}
    /\ review_df = None
    /\ generated = NotGenerated

WrapSpecInit ==
    /\ text \in WrapTexts
    /\ max_width \in 1..MaxWidth
    /\ metrics \in MetricsSet
    /\ words = <<>>
    /\ word_k = 0
    /\ cur = <<>>
    /\ lines = <<>>
    /\ wrap_pc = "split"
    /\ raw = <<>>
    /\ items = <<>>
    /\ item_k = 0
    /\ terms = <<>>
    /\ defs = <<>>
    /\ parse_pc = "idle"
    /\ n_records = 0
    /\ duplex_mode = Mirrored
    /\ back_offset_x_mm = 0
    /\ back_offset_y_mm = 0
    /\ footer_text = <<>>
    /\ show_corner = FALSE
    /\ slice_i = 0
    /\ pages = <<>>
    /\ pdf_pc = "idle"
    /\ stage = "upload"
    /\ raw_text = <<>>
    /\ cards_df = None
    /\ sheet_up = NoSheet
    /\ include_footer = TRUE
    /\ footer_subject = <<>>
    /\ footer_lesson = <<>>
    /\ footer_template = DefaultTemplate
    /\ rendered = {"upload"}
    /\ review_df = None
    /\ generated = NotGenerated

PdfSpecInit ==
    /\ n_records \in 0..MaxCards
    /\ duplex_mode \in DuplexModes
    /\ back_offset_x_mm \in {0, 2}
    /\ back_offset_y_mm \in {0, -1}
    /\ footer_text \in {<<>>, <<"M">>}
    /\ show_corner \in BOOLEAN
    /\ slice_i = 0
    /\ pages = <<>>
    /\ pdf_pc = "front"
    /\ raw = <<>>
    /\ items = <<>>
    /\ item_k = 0
    /\ terms = <<>>
    /\ defs = <<>>
    /\ parse_pc = "idle"
    /\ text = <<>>
    /\ max_width = 0
    /\ metrics = <<>>
    /\ words = <<>>
    /\ word_k = 0
    /\ cur = <<>>
    /\ lines = <<>>
    /\ wrap_pc = "idle"
    /\ stage = "upload"
    /\ raw_text = <<>>
    /\ cards_df = None
    /\ sheet_up = NoSheet
    /\ include_footer = TRUE
    /\ footer_subject = <<>>
    /\ footer_lesson = <<>>
    /\ footer_template = DefaultTemplate
    /\ rendered = {"upload"}
    /\ review_df = None
    /\ generated = NotGenerated

UiSpecInit ==
    /\ stage = "upload"
    /\ raw_text = <<>>
    /\ cards_df = None
    /\ sheet_up = NoSheet
    /\ include_footer = TRUE
    /\ footer_subject = <<>>
    /\ footer_lesson = <<>>
    /\ footer_template = DefaultTemplate
    /\ rendered = {"upload"}
    /\ review_df = None
    /\ generated = NotGenerated
    /\ raw = <<>>
    /\ items = <<>>
    /\ item_k = 0
    /\ terms = <<>>
    /\ defs = <<>>
    /\ parse_pc = "idle"
    /\ text = <<>>
    /\ max_width = 0
    /\ metrics = <<>>
    /\ words = <<>>
    /\ word_k = 0
    /\ cur = <<>>
    /\ lines = <<>>
    /\ wrap_pc = "idle"
    /\ n_records = 0
    /\ duplex_mode = Mirrored
    /\ back_offset_x_mm = 0
    /\ back_offset_y_mm = 0
    /\ footer_text = <<>>
    /\ show_corner = FALSE
    /\ slice_i = 0
    /\ pages = <<>>
    /\ pdf_pc = "idle"

ParseSpec == ParseSpecInit /\ [][ParseNext]_vars
WrapSpec == WrapSpecInit /\ [][WrapNext]_vars
PdfSpec == PdfSpecInit /\ [][PdfNext]_vars /\ WF_vars(PdfNext)
UiSpec == UiSpecInit /\ [][UiNext]_vars

(***************************************************************************)
(* Properties of create_cards_pdf (PdfSpec).                               *)
(***************************************************************************)
PerSheet == COLS * ROWS
SheetCount(n) == (n + PerSheet - 1) \div PerSheet

PagesInOrder ==
    /\ \A k \in 1..Len(pages) :
          /\ pages[k].face = (IF k % 2 = 1 THEN "front" ELSE "back")
          /\ pages[k].sheet = (k - 1) \div 2
          /\ Len(pages[k].cards) = Min(PerSheet, n_records - PerSheet * pages[k].sheet)
          /\ Len(pages[k].cards) >= 1
    /\ Len(pages) <= 2 * SheetCount(n_records)
    /\ pdf_pc = "back" => Len(pages) % 2 = 1
    /\ pdf_pc \in {"front", "done"} => Len(pages) % 2 = 0
    /\ pdf_pc = "done" => Len(pages) = 2 * SheetCount(n_records)

DoneOnlyAfterLastBack ==
    (pdf_pc # "done" /\ pdf_pc' = "done") =>
        /\ pages' = pages
        /\ Len(pages) = 2 * SheetCount(n_records)
        /\ pages[Len(pages)].face = "back"

\* C1: for a deck of N >= 1 cards the pages are front(0), back(0), ..., front(S-1),
\* back(S-1) with S = ceil(N/8), each back page right after its front page, the last
\* (possibly partial) sheet with both faces, and the call ends right after the last
\* back page without another page.
C1_PageSequence ==
    /\ [](n_records >= 1 => PagesInOrder)
    /\ [][n_records >= 1 => DoneOnlyAfterLastBack]_vars
    /\ <>(pdf_pc = "done")

C1_Witness ==
    /\ pdf_pc = "done"
    /\ n_records = 2 * PerSheet + 1
    /\ Len(pages) = 6
    /\ Len(pages[5].cards) = 1
    /\ Len(pages[6].cards) = 1

\* the places <<page, place on the page>> where record p is drawn on the given face
Placements(p, face) ==
    {pl \in (1..Len(pages)) \X (1..PerSheet) :
        /\ pages[pl[1]].face = face
        /\ pl[2] <= Len(pages[pl[1]].cards)
        /\ pages[pl[1]].cards[pl[2]].rec = p}

\* C2: the card at deck position p is drawn exactly once on a front page and exactly
\* once on a back page, both of sheet p div 8, on the front at grid index p mod 8
\* (column = index mod 2, row = index div 2); nothing else is drawn, no two cards of
\* a page share a cell, and the pages keep the deck's order.
C2_EachCardOncePerFace ==
    /\ \A p \in 0..(n_records - 1) :
          LET front == 2 * (p \div PerSheet) + 1
              i == p % PerSheet
          IN  /\ Len(pages) >= front =>
                    /\ Placements(p, "front") = {<<front, i + 1>>}
                    /\ pages[front].sheet = p \div PerSheet
                    /\ pages[front].cards[i + 1].col = i % COLS
                    /\ pages[front].cards[i + 1].row = i \div COLS
              /\ Len(pages) < front => Placements(p, "front") = {}
              /\ Len(pages) >= front + 1 =>
                    /\ Placements(p, "back") = {<<front + 1, i + 1>>}
                    /\ pages[front + 1].sheet = p \div PerSheet
              /\ Len(pages) < front + 1 => Placements(p, "back") = {}
              /\ pdf_pc = "done" => Len(pages) >= front + 1
    /\ \A k \in 1..Len(pages) :
          \A a, b \in 1..Len(pages[k].cards) :
             /\ pages[k].cards[a].rec \in 0..(n_records - 1)
             /\ pages[k].cards[a].col \in 0..(COLS - 1)
             /\ pages[k].cards[a].row \in 0..(ROWS - 1)
             /\ a < b => pages[k].cards[a].rec < pages[k].cards[b].rec
             /\ a # b =>
                   <<pages[k].cards[a].col, pages[k].cards[a].row>>
                   # <<pages[k].cards[b].col, pages[k].cards[b].row>>
             /\ a # b =>
                   <<pages[k].cards[a].x, pages[k].cards[a].y>>
                   # <<pages[k].cards[b].x, pages[k].cards[b].y>>

C2_Witness ==
    /\ pdf_pc = "done"
    /\ n_records = PerSheet + 3
    /\ duplex_mode = Mirrored
    /\ Placements(PerSheet + 2, "back") = {<<4, 3>>}
    /\ pages[4].cards[3].col = 1
    /\ pages[4].cards[3].row = 1

\* C3: in the mirrored mode, on every sheet (a partial last one too), the card at
\* front grid index i, column k and row r, has its back face in back-grid column
\* 1 - k and row r: mirrored about the page's vertical axis, at the same height,
\* moved by the back offset.
C3_MirroredBack ==
    duplex_mode = Mirrored =>
        \A k \in 1..Len(pages) :
           pages[k].face = "back" =>
              \A idx \in 1..Len(pages[k].cards) :
                 LET i == idx - 1
                     back == pages[k].cards[idx]
                     front == pages[k - 1].cards[idx]
                 IN  /\ front.rec = back.rec
                     /\ front.col = i % COLS
                     /\ front.row = i \div COLS
                     /\ back.col = 1 - front.col
                     /\ back.row = front.row
                     /\ back.x - mm_to_points(back_offset_x_mm) + front.x
                           = Pt(PAGE_W) - Pt(card_w)
                     /\ back.y = front.y + mm_to_points(back_offset_y_mm)

C3_Witness ==
    /\ pdf_pc = "done"
    /\ duplex_mode = Mirrored
    /\ n_records = PerSheet + 1
    /\ back_offset_x_mm # 0
    /\ pages[4].cards[1].col = 1
    /\ pages[4].cards[1].row = 0

(***************************************************************************)
(* Properties of wrap_text (WrapSpec).                                     *)
(***************************************************************************)
RECURSIVE WordsOfLines(_)
WordsOfLines(ls) ==
    IF ls = <<>> THEN <<>> ELSE str_split(ls[1]) \o WordsOfLines(Tail(ls))

\* C8: every returned line fits max_width or is one unbroken word that alone is
\* wider; no line is empty; the words of the lines, in order, are the words of the
\* text.
C8_LinesFitAndKeepWords ==
    wrap_pc = "done" =>
        /\ \A k \in 1..Len(lines) :
              /\ lines[k] # <<>>
              /\ \/ stringWidth(lines[k], metrics) <= max_width
                 \/ /\ str_split(lines[k]) = <<lines[k]>>
                    /\ stringWidth(lines[k], metrics) > max_width
        /\ WordsOfLines(lines) = str_split(text)

C8_Witness ==
    /\ wrap_pc = "done"
    /\ Len(lines) = 2
    /\ Len(str_split(lines[1])) = 2
    /\ stringWidth(lines[1], metrics) <= max_width
    /\ stringWidth(lines[2], metrics) > max_width

(***************************************************************************)
(* Statements about the parser that the code does not meet (ParseSpec).    *)
(***************************************************************************)
\* the index in s of the separator character of the explicit split (0 if the block
\* is not split at an explicit delimiter)
SplitPoint(s) ==
    IF first_delim(s) = 0 THEN 0
    ELSE LET d == ExplicitDelims[first_delim(s)]
         IN  Find(s, d) + (SkipTo(d, 1, HeadwordSeps) - 1)

\* C5: a block is split at a separator character (hyphen, dash or colon) only when
\* that character has whitespace on both sides.
C5_SeparatorHasWhitespace ==
    \A k \in 1..(item_k - 1) :
       LET s == strip_numbering(items[k])
           at == SplitPoint(s)
       IN  at > 0 =>
              /\ at > 1 /\ s[at - 1] \in Whitespace
              /\ at < Len(s) /\ s[at + 1] \in Whitespace

\* the lines of the input
LinesOf(r) == SplitAt(r, {i \in 1..Len(r) : r[i] = "\n"}, 1)

\* a line that starts a list item: digits then '.' or ')', or a bullet, then
\* whitespace
IsMarkerLine(l) ==
    LET b == Skip(l, 1, Digits)
    IN  \/ b > 1 /\ b + 1 <= Len(l) /\ l[b] \in ItemPunct /\ l[b + 1] \in Whitespace
        \/ Len(l) >= 2 /\ l[1] \in {"-", "*", "bullet"} /\ l[2] \in Whitespace

\* what follows the marker of a marker line
AfterMarker(l) ==
    LET b == Skip(l, 1, Digits)
    IN  strip(SubSeq(l, (IF b > 1 THEN b + 1 ELSE 2), Len(l)))

\* C6: for a text whose lines each start with a list marker (numbered or bulleted)
\* followed by some content, the parser returns as many pairs as there are marker
\* lines.
C6_OnePairPerMarker ==
    (/\ parse_pc = "done"
     /\ \A k \in 1..Len(LinesOf(raw)) :
           /\ IsMarkerLine(LinesOf(raw)[k])
           /\ AfterMarker(LinesOf(raw)[k]) # <<>>)
    => Len(terms) = Len(LinesOf(raw))

\* a line with no separator character, no parenthesis and no list marker
IsContinuationLine(l) ==
    /\ strip(l) # <<>>
    /\ ~IsMarkerLine(l)
    /\ \A i \in 1..Len(l) : l[i] \notin (HeadwordSeps \cup {"(", ")"} \cup Digits)

\* C7: a line with no separator that starts no list item, after a line that made
\* a pair, makes no pair of its own: it is appended to that pair's definition
\* after a single space, and no newline stays in the definition.
C7_ContinuationJoinedBySpace ==
    (/\ parse_pc = "done"
     /\ Len(LinesOf(raw)) = 2
     /\ IsContinuationLine(LinesOf(raw)[2])
     /\ smart_split_term_def(LinesOf(raw)[1])[2] # <<>>)
    => /\ terms = <<smart_split_term_def(LinesOf(raw)[1])[1]>>
       /\ defs = <<smart_split_term_def(LinesOf(raw)[1])[2] \o <<" ">>
                   \o strip(LinesOf(raw)[2])>>
       /\ Find(defs[1], <<"\n">>) = 0

(***************************************************************************)
(* Statements about the session that the code does not meet (UiSpec).      *)
(***************************************************************************)
\* C4: "Generate PDF" with a deck of no cards builds no document: no PDF is offered
\* and the "nothing to render" condition is reported.
C4_EmptyDeckRefused ==
    (generated.kind # "none" /\ generated.deck = <<>>) =>
        /\ generated.kind = "warning"
        /\ generated.pages = <<>>

\* whether a page draws a footer on some card
DrawsFooter(pg) == \E idx \in 1..Len(pg.cards) : pg.cards[idx].footer

\* C9: with the template "{subject} . {lesson}" and an empty lesson the footer is
\* exactly the subject; with both fields empty it is the empty string, and no card
\* carries a footer.
C9_FooterCollapses ==
    (/\ generated.kind = "pdf"
     /\ generated.deck # <<>>
     /\ include_footer
     /\ footer_template = DefaultTemplate
     /\ footer_lesson = <<>>)
    => /\ generated.footer = footer_subject
       /\ footer_subject = <<>> =>
             \A k \in 1..Len(generated.pages) : ~DrawsFooter(generated.pages[k])

\* C10: the deck of the review step and of the generated PDF is the stored deck only
\* when that deck is there and not empty; otherwise it is the parse of the current
\* text.  So a deck in use is never empty while the current text parses to cards.
C10_EmptyDeckReparsed ==
    /\ ("review" \in rendered /\ review_df.rows = <<>>)
          => parse_text_to_df(strip(raw_text)) = <<>>
    /\ (generated.kind = "pdf" /\ generated.deck = <<>>)
          => parse_text_to_df(strip(raw_text)) = <<>>

====
